---- MODULE Spec2Model ----
(***************************************************************************)
(* Model of pkg/proxy/proxy.go of GitWebhookProxy: construction of the     *)
(* Proxy (NewProxy), the path allow-list (isPathAllowed) and the request   *)
(* pipeline of proxyRequest with the outbound call made by redirect.       *)
(*                                                                         *)
(* A Go string is a sequence of one-character strings.  A run of lower     *)
(* case letters ("github", "bogus", "https") may be written as one symbol; *)
(* such a symbol is never whitespace, "/", ":" or a control character.     *)
(* HTTP methods, header names and header values are TLA+ strings.          *)
(* A Go pointer is a sequence of length 0 (nil) or 1 (the pointee).        *)
(* A Go slice is a record [isNil, elems]; a nil slice has no elements.     *)
(*                                                                         *)
(* pc, request, stages, hook, writes, sent and resp are the handler of     *)
(* the one request in hand; handlers holds one such record for each of     *)
(* the requests the server handles at the same time.                       *)
(***************************************************************************)
EXTENDS Integers, Sequences, FiniteSets, TLC

VARIABLES args, proxy, newErr, pc, request, stages, hook, writes, sent, resp, call, handlers

vars == <<args, proxy, newErr, pc, request, stages, hook, writes, sent, resp, call, handlers>>

----------------------------------------------------------------------------
(* Bounds *)

MaxPathLen == 4
MaxEntryLen == 2
MaxPaths == 1
MaxHandlers == 2

----------------------------------------------------------------------------
(* Strings *)

Alphabet == {"/", " ", "x"}

RECURSIVE StringsUpTo(_)
StringsUpTo(n) ==
    IF n = 0 THEN {<<>>}
    ELSE LET shorter == StringsUpTo(n - 1)
         IN  shorter \cup {Append(s, c) : s \in {t \in shorter : Len(t) = n - 1}, c \in Alphabet}

RECURSIVE ListsUpTo(_, _)
ListsUpTo(S, n) ==
    IF n = 0 THEN {<<>>}
    ELSE LET shorter == ListsUpTo(S, n - 1)
         IN  shorter \cup {Append(l, e) : l \in {t \in shorter : Len(t) = n - 1}, e \in S}

\* unicode.IsSpace on the characters that occur in the model
IsSpace(c) == c \in {" ", "\t"}

\* the control characters net/url rejects (b < ' ' || b == 0x7f)
IsCTL(c) == c \in {"\t"}

RECURSIVE TrimLeftSpace(_)
TrimLeftSpace(s) ==
    IF s # <<>> /\ IsSpace(Head(s)) THEN TrimLeftSpace(Tail(s)) ELSE s

RECURSIVE TrimRightSpace(_)
TrimRightSpace(s) ==
    IF s # <<>> /\ IsSpace(s[Len(s)]) THEN TrimRightSpace(SubSeq(s, 1, Len(s) - 1)) ELSE s

\* strings.TrimSpace
TrimSpace(s) == TrimRightSpace(TrimLeftSpace(s))

\* strings.HasSuffix
HasSuffix(s, suffix) ==
    /\ Len(s) >= Len(suffix)
    /\ SubSeq(s, Len(s) - Len(suffix) + 1, Len(s)) = suffix

\* strings.TrimSuffix
TrimSuffix(s, suffix) ==
    IF HasSuffix(s, suffix) THEN SubSeq(s, 1, Len(s) - Len(suffix)) ELSE s

\* NormalizePath trimming the "/" before the whitespace
NormalizePathSlashFirst(s) == TrimSpace(TrimSuffix(s, <<"/">>))

\* NormalizePath without the strings.TrimSpace
NormalizePathNoTrimSpace(s) == TrimSuffix(s, <<"/">>)

\* the expression both sides of the comparison in isPathAllowed are put through
NormalizePath(s) == TrimSuffix(TrimSpace(s), <<"/">>)

----------------------------------------------------------------------------
(* Proxy *)

NilSlice == [isNil |-> TRUE, elems |-> <<>>]
Slice(l) == [isNil |-> FALSE, elems |-> l]

\* the loop of isPathAllowed comparing with strings.HasPrefix instead of ==
RECURSIVE isPathAllowedPrefix(_, _, _)
isPathAllowedPrefix(allowed, path, i) ==
    IF i > Len(allowed) THEN FALSE
    ELSE IF /\ Len(NormalizePath(allowed[i])) <= Len(NormalizePath(path))
            /\ SubSeq(NormalizePath(path), 1, Len(NormalizePath(allowed[i])))
                  = NormalizePath(allowed[i])
         THEN TRUE
    ELSE isPathAllowedPrefix(allowed, path, i + 1)

RECURSIVE isPathAllowedFrom(_, _, _)
isPathAllowedFrom(allowed, path, i) ==
    IF i > Len(allowed) THEN FALSE
    ELSE IF NormalizePath(allowed[i]) = NormalizePath(path) THEN TRUE
    ELSE isPathAllowedFrom(allowed, path, i + 1)

\* isPathAllowed without the case of the empty allow-list
isPathAllowedNoEmptyCase(p, path) == isPathAllowedFrom(p.allowedPaths.elems, path, 1)

isPathAllowed(p, path) ==
    IF Len(p.allowedPaths.elems) = 0 THEN TRUE
    ELSE isPathAllowedFrom(p.allowedPaths.elems, path, 1)

\* NewProxy without the check of allowedPaths against nil
NewProxyNoNilCheck(upstreamURL, allowedPaths, provider, secret) ==
    IF Len(TrimSpace(secret)) = 0
    THEN [proxy |-> <<>>, err |-> "Cannot create Proxy with empty secret"]
    ELSE IF Len(TrimSpace(upstreamURL)) = 0
    THEN [proxy |-> <<>>, err |-> "Cannot create Proxy with empty upstreamURL"]
    ELSE IF Len(TrimSpace(provider)) = 0
    THEN [proxy |-> <<>>, err |-> "Cannot create Proxy with empty provider"]
    ELSE [proxy |-> << [provider |-> provider, upstreamURL |-> upstreamURL,
                        allowedPaths |-> allowedPaths, secret |-> secret,
                        httpClient |-> [Timeout |-> 60]] >>,
          err |-> ""]

NewProxy(upstreamURL, allowedPaths, provider, secret) ==
    IF Len(TrimSpace(secret)) = 0
    THEN [proxy |-> <<>>, err |-> "Cannot create Proxy with empty secret"]
    ELSE IF Len(TrimSpace(upstreamURL)) = 0
    THEN [proxy |-> <<>>, err |-> "Cannot create Proxy with empty upstreamURL"]
    ELSE IF Len(TrimSpace(provider)) = 0
    THEN [proxy |-> <<>>, err |-> "Cannot create Proxy with empty provider"]
    ELSE IF allowedPaths.isNil
    THEN [proxy |-> <<>>, err |-> "Cannot create Proxy with nil allowedPaths"]
    ELSE [proxy |-> << [provider |-> provider, upstreamURL |-> upstreamURL,
                        allowedPaths |-> allowedPaths, secret |-> secret,
                        httpClient |-> [Timeout |-> 60]] >>,
          err |-> ""]

----------------------------------------------------------------------------
(* Collaborators of the proxy: pkg/providers, pkg/parser, net/url, net/http *)

StatusOK == 200
StatusBadRequest == 400
StatusForbidden == 403
StatusInternalServerError == 500

KnownProviders == {<<"github">>, <<"gitlab">>}

\* providers.NewProvider: a provider, or an error for an unknown name or a blank secret
NewProvider(name, secret) ==
    IF name \notin KnownProviders THEN [provider |-> <<>>, err |-> "unknown provider"]
    ELSE IF Len(TrimSpace(secret)) = 0 THEN [provider |-> <<>>, err |-> "empty secret"]
    ELSE [provider |-> << [name |-> name, secret |-> secret] >>, err |-> ""]

\* parser.Parse: the Hook of a request whose body and signature material can be read
Parse(r, provider) ==
    IF ~r.parseOk THEN [hook |-> <<>>, err |-> "parse error"]
    ELSE [hook |-> << [requestMethod |-> "POST", headers |-> r.headers, payload |-> r.body,
                       signatureValid |-> r.sigValid] >>,
          err |-> ""]

\* Provider.Validate: whether the signature carried by the hook matches the secret
Validate(provider, h) == h.signatureValid

\* the characters of a URL: letters, and the other characters a scheme may hold
IsLetter(c) == c \in {"x", "u", "http", "https"}
IsSchemeOther(c) == c \in {"8", "+", "-", "."}

\* net/url getScheme: the scheme before the first ":" and what follows it
RECURSIVE getSchemeFrom(_, _)
getSchemeFrom(rawurl, i) ==
    IF i > Len(rawurl) THEN [scheme |-> <<>>, rest |-> rawurl, err |-> ""]
    ELSE IF IsLetter(rawurl[i]) THEN getSchemeFrom(rawurl, i + 1)
    ELSE IF IsSchemeOther(rawurl[i])
         THEN IF i = 1 THEN [scheme |-> <<>>, rest |-> rawurl, err |-> ""]
              ELSE getSchemeFrom(rawurl, i + 1)
    ELSE IF rawurl[i] = ":"
         THEN IF i = 1 THEN [scheme |-> <<>>, rest |-> <<>>, err |-> "missing protocol scheme"]
              ELSE [scheme |-> SubSeq(rawurl, 1, i - 1),
                    rest |-> SubSeq(rawurl, i + 1, Len(rawurl)), err |-> ""]
    ELSE [scheme |-> <<>>, rest |-> rawurl, err |-> ""]

\* strings.HasPrefix
HasPrefix(s, prefix) == Len(s) >= Len(prefix) /\ SubSeq(s, 1, Len(prefix)) = prefix

\* the part of s before the first "/" (strings.Cut)
RECURSIVE firstSegment(_)
firstSegment(s) ==
    IF s = <<>> \/ Head(s) = "/" THEN <<>> ELSE <<Head(s)>> \o firstSegment(Tail(s))

Contains(s, c) == \E i \in 1..Len(s) : s[i] = c

\* url.Parse: the URL as its scheme and the rest, or an error for a control
\* character, a missing scheme before ":", a colon in the first segment of
\* a URL without scheme, or a space in the host
urlParse(rawurl) ==
    IF \E i \in 1..Len(rawurl) : IsCTL(rawurl[i])
    THEN [url |-> <<>>, err |-> "invalid control character in URL"]
    ELSE LET g == getSchemeFrom(rawurl, 1) IN
         IF g.err # "" THEN [url |-> <<>>, err |-> g.err]
         ELSE IF ~HasPrefix(g.rest, <<"/">>) /\ g.scheme = <<>>
                 /\ Contains(firstSegment(g.rest), ":")
         THEN [url |-> <<>>, err |-> "first path segment in URL cannot contain colon"]
         ELSE IF HasPrefix(g.rest, <<"/", "/">>) /\ ~HasPrefix(g.rest, <<"/", "/", "/">>)
                 /\ Contains(firstSegment(SubSeq(g.rest, 3, Len(g.rest))), " ")
         THEN [url |-> <<>>, err |-> "invalid character in host name"]
         ELSE [url |-> << [Scheme |-> g.scheme, Rest |-> g.rest] >>, err |-> ""]

urlParseFails(rawurl) == urlParse(rawurl).err # ""

\* textproto.CanonicalMIMEHeaderKey on the header names of the model
CanonicalMIMEHeaderKey(key) == IF key = "X-GitHub-Event" THEN "X-Github-Event" ELSE key

\* providers.ContentTypeHeader
ContentTypeHeader == "Content-Type"

\* http.Header.Add: the value appended to the values under the canonical key
HeaderAdd(header, key, value) ==
    LET k == CanonicalMIMEHeaderKey(key)
    IN  IF k \in DOMAIN header THEN [header EXCEPT ![k] = Append(@, value)]
        ELSE header @@ (k :> <<value>>)

\* an http.Header without entries
EmptyHeader == [k \in {} |-> <<>>]

\* the orders in which a range loop may visit the keys of a map
MapOrders(m) ==
    {o \in [1..Cardinality(DOMAIN m) -> DOMAIN m] : \A i, j \in DOMAIN o : i # j => o[i] # o[j]}

\* the methods http.NewRequest accepts; it reads the empty method as GET
ValidMethods == {"GET", "POST"}

\* http.Error: WriteHeader(code) followed by the message
httpError(w, msg, code) == Append(w, [status |-> code, body |-> msg])

\* what the caller receives: the first status written, else the server's default 200
CallerStatus == IF writes = <<>> THEN StatusOK ELSE writes[1].status

CallerBody == IF writes = <<>> THEN "" ELSE writes[1].body

----------------------------------------------------------------------------
(* Inputs *)

UpstreamURLs == {<<>>, <<" ">>, <<"u">>, <<"u", "\t">>}
ProviderNames == {<<>>, <<" ">>, <<"github">>, <<"bogus">>}
Secrets == {<<>>, <<" ">>, <<"s">>}
ConfigEntries == {<<"/", "x">>, <<"x", "/">>}
ConfigSlices == {NilSlice} \cup {Slice(l) : l \in ListsUpTo(ConfigEntries, MaxPaths)}
RequestPaths == StringsUpTo(MaxPathLen)
UpstreamStatuses == {200, 399, 400, 403, 503}

StageOrder == <<"PathCheck", "ProviderInit", "ParseHook", "ValidateHook",
                "Redirect", "UpstreamStatusCheck">>

RequestHeaders == {("Content-Type" :> "json") @@ ("X-GitHub-Event" :> "push"),
                   ("X-GitHub-Event" :> "push")}
RequestBodies == {<<1>>, <<2, 1>>}

NoRequest == [path |-> <<>>, parseOk |-> FALSE, sigValid |-> FALSE,
              headers |-> EmptyHeader, body |-> <<>>]
NoResp == [StatusCode |-> 0]

----------------------------------------------------------------------------
(* Startup and the request pipeline *)

Init ==
    /\ args = <<>>
    /\ proxy = <<>>
    /\ newErr = ""
    /\ pc = "start"
    /\ request = NoRequest
    /\ stages = <<>>
    /\ hook = <<>>
    /\ writes = <<>>
    /\ sent = <<>>
    /\ resp = NoResp
    /\ call = <<>>
    /\ handlers = <<>>

Construct(upstreamURL, allowedPaths, provider, secret) ==
    /\ pc = "start"
    /\ LET r == NewProxy(upstreamURL, allowedPaths, provider, secret)
       IN  /\ proxy' = r.proxy
           /\ newErr' = r.err
           /\ pc' = IF r.err = "" THEN "idle" ELSE "failed"
    /\ args' = << [upstreamURL |-> upstreamURL, allowedPaths |-> allowedPaths,
                   provider |-> provider, secret |-> secret] >>
    /\ UNCHANGED <<request, stages, hook, writes, sent, resp, call, handlers>>

\* the router hands a POST to proxyRequest
Arrive(path, parseOk, sigValid, headers, body) ==
    /\ pc = "idle"
    /\ request' = [path |-> path, parseOk |-> parseOk, sigValid |-> sigValid,
                   headers |-> headers, body |-> body]
    /\ pc' = "PathCheck"
    /\ UNCHANGED <<args, proxy, newErr, stages, hook, writes, sent, resp, call, handlers>>

\* PathCheck without the return after http.Error
PathCheckNoReturn ==
    /\ pc = "PathCheck"
    /\ stages' = Append(stages, "PathCheck")
    /\ IF ~isPathAllowed(proxy[1], request.path)
       THEN writes' = httpError(writes, "Not allowed to proxy path", StatusForbidden)
       ELSE UNCHANGED writes
    /\ pc' = "ProviderInit"
    /\ UNCHANGED <<args, proxy, newErr, request, hook, sent, resp, call, handlers>>

PathCheck ==
    /\ pc = "PathCheck"
    /\ stages' = Append(stages, "PathCheck")
    /\ IF ~isPathAllowed(proxy[1], request.path)
       THEN /\ writes' = httpError(writes, "Not allowed to proxy path", StatusForbidden)
            /\ pc' = "done"
       ELSE /\ pc' = "ProviderInit"
            /\ UNCHANGED writes
    /\ UNCHANGED <<args, proxy, newErr, request, hook, sent, resp, call, handlers>>

\* ProviderInit answering 400 instead of 500
ProviderInitBadRequest ==
    /\ pc = "ProviderInit"
    /\ stages' = Append(stages, "ProviderInit")
    /\ IF NewProvider(proxy[1].provider, proxy[1].secret).err # ""
       THEN /\ writes' = httpError(writes, "Error creating Provider", StatusBadRequest)
            /\ pc' = "done"
       ELSE /\ pc' = "ParseHook"
            /\ UNCHANGED writes
    /\ UNCHANGED <<args, proxy, newErr, request, hook, sent, resp, call, handlers>>

ProviderInit ==
    /\ pc = "ProviderInit"
    /\ stages' = Append(stages, "ProviderInit")
    /\ IF NewProvider(proxy[1].provider, proxy[1].secret).err # ""
       THEN /\ writes' = httpError(writes, "Error creating Provider", StatusInternalServerError)
            /\ pc' = "done"
       ELSE /\ pc' = "ParseHook"
            /\ UNCHANGED writes
    /\ UNCHANGED <<args, proxy, newErr, request, hook, sent, resp, call, handlers>>

\* ParseHook handing the parsed hook to redirect without validating it
ParseHookSkipsValidate ==
    /\ pc = "ParseHook"
    /\ stages' = Append(stages, "ParseHook")
    /\ LET provider == NewProvider(proxy[1].provider, proxy[1].secret).provider[1]
           r == Parse(request, provider)
       IN  IF r.err # ""
           THEN /\ writes' = httpError(writes, "Error parsing Hook", StatusBadRequest)
                /\ pc' = "done"
                /\ UNCHANGED hook
           ELSE /\ hook' = r.hook
                /\ pc' = "Redirect"
                /\ UNCHANGED writes
    /\ UNCHANGED <<args, proxy, newErr, request, sent, resp, call, handlers>>

ParseHook ==
    /\ pc = "ParseHook"
    /\ stages' = Append(stages, "ParseHook")
    /\ LET provider == NewProvider(proxy[1].provider, proxy[1].secret).provider[1]
           r == Parse(request, provider)
       IN  IF r.err # ""
           THEN /\ writes' = httpError(writes, "Error parsing Hook", StatusBadRequest)
                /\ pc' = "done"
                /\ UNCHANGED hook
           ELSE /\ hook' = r.hook
                /\ pc' = "ValidateHook"
                /\ UNCHANGED writes
    /\ UNCHANGED <<args, proxy, newErr, request, sent, resp, call, handlers>>

\* ValidateHook without the return after http.Error
ValidateHookNoReturn ==
    /\ pc = "ValidateHook"
    /\ stages' = Append(stages, "ValidateHook")
    /\ LET provider == NewProvider(proxy[1].provider, proxy[1].secret).provider[1]
       IN  IF ~Validate(provider, hook[1])
           THEN writes' = httpError(writes, "Error validating Hook", StatusBadRequest)
           ELSE UNCHANGED writes
    /\ pc' = "Redirect"
    /\ UNCHANGED <<args, proxy, newErr, request, hook, sent, resp, call, handlers>>

ValidateHook ==
    /\ pc = "ValidateHook"
    /\ stages' = Append(stages, "ValidateHook")
    /\ LET provider == NewProvider(proxy[1].provider, proxy[1].secret).provider[1]
       IN  IF ~Validate(provider, hook[1])
           THEN /\ writes' = httpError(writes, "Error validating Hook", StatusBadRequest)
                /\ pc' = "done"
           ELSE /\ pc' = "Redirect"
                /\ UNCHANGED writes
    /\ UNCHANGED <<args, proxy, newErr, request, hook, sent, resp, call, handlers>>

\* the headers of the outbound request: the content type first, when the
\* hook has it, then every header of the hook in the order the loop takes
RECURSIVE addHeaders(_, _, _, _)
addHeaders(header, hookHeaders, order, i) ==
    IF i > Len(order) THEN header
    ELSE addHeaders(HeaderAdd(header, order[i], hookHeaders[order[i]]), hookHeaders, order, i + 1)

\* redirectHeaders without the content type added ahead of the loop
redirectHeadersLoopOnly(hookHeaders, order) == addHeaders(EmptyHeader, hookHeaders, order, 1)

redirectHeaders(hookHeaders, order) ==
    addHeaders(IF ContentTypeHeader \in DOMAIN hookHeaders
               THEN HeaderAdd(EmptyHeader, ContentTypeHeader, hookHeaders[ContentTypeHeader])
               ELSE EmptyHeader,
               hookHeaders, order, 1)

\* defaultScheme overwriting the scheme the URL has
defaultSchemeAlways(u) == [u EXCEPT !.Scheme = <<"http">>]

\* the URL with http as its scheme when it has none
defaultScheme(u) == IF u.Scheme = <<>> THEN [u EXCEPT !.Scheme = <<"http">>] ELSE u

\* newRequest with the method fixed to POST
newRequestAlwaysPost(method, u, payload, newRequestFails) ==
    IF method # "" /\ method \notin ValidMethods
    THEN [req |-> <<>>, err |-> "net/http: invalid method"]
    ELSE IF newRequestFails THEN [req |-> <<>>, err |-> "NewRequest failed"]
    ELSE [req |-> << [method |-> "POST", url |-> u, body |-> payload,
                      header |-> EmptyHeader] >>,
          err |-> ""]

\* http.NewRequest(method, url.String(), bytes.NewBuffer(payload)): the empty
\* method stands for GET and any other method must be a valid one;
\* newRequestFails is NewRequest refusing the string of the URL
newRequest(method, u, payload, newRequestFails) ==
    IF method # "" /\ method \notin ValidMethods
    THEN [req |-> <<>>, err |-> "net/http: invalid method"]
    ELSE IF newRequestFails THEN [req |-> <<>>, err |-> "NewRequest failed"]
    ELSE [req |-> << [method |-> IF method = "" THEN "GET" ELSE method,
                      url |-> u, body |-> payload, header |-> EmptyHeader] >>,
          err |-> ""]

\* redirectBuild parsing the URL before it looks at the hook
redirectBuildUrlFirst(p, h, path, newRequestFails, order) ==
    LET u == urlParse(p.upstreamURL \o path) IN
    IF u.err # "" THEN [req |-> <<>>, err |-> u.err]
    ELSE IF h = <<>> THEN [req |-> <<>>, err |-> "Cannot redirect with nil Hook"]
    ELSE LET r == newRequest(h[1].requestMethod, defaultScheme(u.url[1]),
                             h[1].payload, newRequestFails) IN
         IF r.err # "" THEN r
         ELSE [req |-> << [r.req[1] EXCEPT !.header = redirectHeaders(h[1].headers, order)] >>,
               err |-> ""]

\* redirect up to the call of httpClient.Do: the request to send, or an error;
\* order is the order in which the loop visits hook.Headers
redirectBuild(p, h, path, newRequestFails, order) ==
    IF h = <<>> THEN [req |-> <<>>, err |-> "Cannot redirect with nil Hook"]
    ELSE LET u == urlParse(p.upstreamURL \o path) IN
         IF u.err # "" THEN [req |-> <<>>, err |-> u.err]
         ELSE LET r == newRequest(h[1].requestMethod, defaultScheme(u.url[1]),
                                  h[1].payload, newRequestFails) IN
              IF r.err # "" THEN r
              ELSE [req |-> << [r.req[1] EXCEPT !.header = redirectHeaders(h[1].headers, order)] >>,
                    err |-> ""]

\* Redirect calling redirect again after a transport error
RedirectRetry(newRequestFails, order, outcome) ==
    /\ pc = "Redirect"
    /\ stages' = Append(stages, "Redirect")
    /\ LET b == redirectBuild(proxy[1], hook, request.path, newRequestFails, order)
       IN  IF b.err # ""
           THEN /\ writes' = httpError(writes, "Error Redirecting", StatusInternalServerError)
                /\ pc' = "done"
                /\ UNCHANGED <<sent, resp>>
           ELSE /\ sent' = Append(sent, b.req[1])
                /\ IF outcome = 0
                   THEN /\ pc' = "Redirect"
                        /\ UNCHANGED <<writes, resp>>
                   ELSE /\ resp' = [StatusCode |-> outcome]
                        /\ pc' = "UpstreamStatusCheck"
                        /\ UNCHANGED writes
    /\ UNCHANGED <<args, proxy, newErr, request, hook, call, handlers>>

\* the step of proxyRequest that calls redirect and handles its error;
\* outcome is what httpClient.Do returns: a transport error (0) or a status code
Redirect(newRequestFails, order, outcome) ==
    /\ pc = "Redirect"
    /\ stages' = Append(stages, "Redirect")
    /\ LET b == redirectBuild(proxy[1], hook, request.path, newRequestFails, order)
       IN  IF b.err # ""
           THEN /\ writes' = httpError(writes, "Error Redirecting", StatusInternalServerError)
                /\ pc' = "done"
                /\ UNCHANGED <<sent, resp>>
           ELSE /\ sent' = Append(sent, b.req[1])
                /\ IF outcome = 0
                   THEN /\ writes' = httpError(writes, "Error Redirecting", StatusInternalServerError)
                        /\ pc' = "done"
                        /\ UNCHANGED resp
                   ELSE /\ resp' = [StatusCode |-> outcome]
                        /\ pc' = "UpstreamStatusCheck"
                        /\ UNCHANGED writes
    /\ UNCHANGED <<args, proxy, newErr, request, hook, call, handlers>>

\* UpstreamStatusCheck comparing with > 400
UpstreamStatusCheckAbove400 ==
    /\ pc = "UpstreamStatusCheck"
    /\ stages' = Append(stages, "UpstreamStatusCheck")
    /\ IF resp.StatusCode > 400
       THEN writes' = httpError(writes, "Error Redirecting, Upstream Redirect Status", resp.StatusCode)
       ELSE UNCHANGED writes
    /\ pc' = "done"
    /\ UNCHANGED <<args, proxy, newErr, request, hook, sent, resp, call, handlers>>

\* UpstreamStatusCheck rejecting from status 300 on
UpstreamStatusCheckFrom300 ==
    /\ pc = "UpstreamStatusCheck"
    /\ stages' = Append(stages, "UpstreamStatusCheck")
    /\ IF resp.StatusCode >= 300
       THEN writes' = httpError(writes, "Error Redirecting, Upstream Redirect Status", resp.StatusCode)
       ELSE UNCHANGED writes
    /\ pc' = "done"
    /\ UNCHANGED <<args, proxy, newErr, request, hook, sent, resp, call, handlers>>

UpstreamStatusCheck ==
    /\ pc = "UpstreamStatusCheck"
    /\ stages' = Append(stages, "UpstreamStatusCheck")
    /\ IF resp.StatusCode >= 400
       THEN writes' = httpError(writes, "Error Redirecting, Upstream Redirect Status", resp.StatusCode)
       ELSE UNCHANGED writes
    /\ pc' = "done"
    /\ UNCHANGED <<args, proxy, newErr, request, hook, sent, resp, call, handlers>>

\* proxyRequest has returned and the server has sent the response
Return ==
    /\ pc = "done"
    /\ pc' = "idle"
    /\ request' = NoRequest
    /\ stages' = <<>>
    /\ hook' = <<>>
    /\ writes' = <<>>
    /\ sent' = <<>>
    /\ resp' = NoResp
    /\ UNCHANGED <<args, proxy, newErr, call, handlers>>

Next ==
    \/ /\ pc = "start"
       /\ \E u \in UpstreamURLs, a \in ConfigSlices, p \in ProviderNames, s \in Secrets :
             Construct(u, a, p, s)
    \/ /\ pc = "idle"
       /\ \E path \in RequestPaths, parseOk \in BOOLEAN, sigValid \in BOOLEAN,
             headers \in RequestHeaders, body \in RequestBodies :
             Arrive(path, parseOk, sigValid, headers, body)
    \/ PathCheck
    \/ ProviderInit
    \/ ParseHook
    \/ ValidateHook
    \/ /\ pc = "Redirect"
       /\ \E f \in BOOLEAN, order \in MapOrders(hook[1].headers), o \in {0} \cup UpstreamStatuses :
             Redirect(f, order, o)
    \/ UpstreamStatusCheck
    \/ Return

Spec == Init /\ [][Next]_vars

----------------------------------------------------------------------------
(* isPathAllowed called on its own, on a Proxy with any allow-list *)

PathEntries == StringsUpTo(MaxEntryLen) \cup {<<"/", "x", "/">>}
PathSlices == {Slice(l) : l \in ListsUpTo(PathEntries, MaxPaths)}

InitPath ==
    /\ \E a \in PathSlices :
          /\ args = << [upstreamURL |-> <<"u">>, allowedPaths |-> a,
                        provider |-> <<"github">>, secret |-> <<"s">>] >>
          /\ proxy = NewProxy(<<"u">>, a, <<"github">>, <<"s">>).proxy
    /\ newErr = ""
    /\ pc = "idle"
    /\ request = NoRequest
    /\ stages = <<>>
    /\ hook = <<>>
    /\ writes = <<>>
    /\ sent = <<>>
    /\ resp = NoResp
    /\ call = <<>>
    /\ handlers = <<>>

CallIsPathAllowed(path) ==
    /\ pc = "idle"
    /\ call = <<>>
    /\ call' = << [path |-> path, result |-> isPathAllowed(proxy[1], path)] >>
    /\ UNCHANGED <<args, proxy, newErr, pc, request, stages, hook, writes, sent, resp, handlers>>

NextPath ==
    /\ call = <<>>
    /\ \E path \in RequestPaths : CallIsPathAllowed(path)

SpecPath == InitPath /\ [][NextPath]_vars

----------------------------------------------------------------------------
(* redirect called on its own, with any hook *)

RedirectUpstreams == {<<"u">>, <<"u", "\t">>, <<"https", ":", "/", "/", "u">>,
                      <<":", "u">>, <<"8", ":", "u">>, <<"u", ":", "8">>}
RedirectPaths == {<<>>, <<"/", "x">>, <<"x">>, <<" ", "x">>}
HookMethods == {"", "POST", "GET", "BAD METHOD"}
HookHeaders == {EmptyHeader,
                ("Content-Type" :> "json"),
                ("X-GitHub-Event" :> "push"),
                ("Content-Type" :> "json") @@ ("X-GitHub-Event" :> "push")}
HookPayloads == {<<>>, <<1>>, <<2, 1>>}
RedirectHooks ==
    {<<>>} \cup
    { << [requestMethod |-> m, headers |-> hd, payload |-> pl, signatureValid |-> TRUE] >> :
         m \in HookMethods, hd \in HookHeaders, pl \in HookPayloads }

InitRedirect ==
    /\ \E u \in RedirectUpstreams :
          /\ args = << [upstreamURL |-> u, allowedPaths |-> Slice(<<>>),
                        provider |-> <<"github">>, secret |-> <<"s">>] >>
          /\ proxy = NewProxy(u, Slice(<<>>), <<"github">>, <<"s">>).proxy
    /\ newErr = ""
    /\ pc = "idle"
    /\ request = NoRequest
    /\ stages = <<>>
    /\ hook = <<>>
    /\ writes = <<>>
    /\ sent = <<>>
    /\ resp = NoResp
    /\ call = <<>>
    /\ handlers = <<>>

\* redirect(h, path): call keeps the arguments and what redirect returned,
\* hook is the hook as the call leaves it; outcome is what httpClient.Do
\* returns: a transport error (0) or a status code
CallRedirect(h, path, newRequestFails, order, outcome) ==
    /\ pc = "idle"
    /\ call = <<>>
    /\ hook' = h
    /\ LET b == redirectBuild(proxy[1], h, path, newRequestFails, order)
       IN  IF b.err # ""
           THEN /\ call' = << [path |-> path, hook |-> h, resp |-> <<>>, err |-> b.err] >>
                /\ UNCHANGED <<sent, resp>>
           ELSE /\ sent' = Append(sent, b.req[1])
                /\ IF outcome = 0
                   THEN /\ call' = << [path |-> path, hook |-> h, resp |-> <<>>,
                                       err |-> "transport error"] >>
                        /\ UNCHANGED resp
                   ELSE /\ call' = << [path |-> path, hook |-> h,
                                       resp |-> << [StatusCode |-> outcome] >>, err |-> ""] >>
                        /\ resp' = [StatusCode |-> outcome]
    /\ UNCHANGED <<args, proxy, newErr, pc, request, stages, writes, handlers>>

NextRedirect ==
    /\ call = <<>>
    /\ \E h \in RedirectHooks, path \in RedirectPaths, f \in BOOLEAN,
          o \in {0} \cup UpstreamStatuses :
          \E order \in (IF h = <<>> THEN {<<>>} ELSE MapOrders(h[1].headers)) :
             CallRedirect(h, path, f, order, o)

SpecRedirect == InitRedirect /\ [][NextRedirect]_vars

----------------------------------------------------------------------------
(* Requests handled at the same time by one Proxy.  A handler is the record *)
(* of the locals of one run of proxyRequest; the handlers share the Proxy.  *)
(* The call of httpClient.Do is a step of its own: a handler waits in       *)
(* "AwaitUpstream" until the upstream answers or Do gives up.               *)

Handlers == 1..MaxHandlers

ConcUpstreams == {<<"u">>}
ConcProviders == {<<"github">>, <<"bogus">>}
ConcSlices == {Slice(<< <<"/", "x">> >>)}
ConcHeaders == ("Content-Type" :> "json")
ConcRequest(path, parseOk, sigValid, body) ==
    [path |-> path, parseOk |-> parseOk, sigValid |-> sigValid,
     headers |-> ConcHeaders, body |-> body]
\* a request for each way through proxyRequest: a path off the allow-list, a
\* body that does not parse, a wrong signature, and one that passes
ConcRequests == {ConcRequest(<<"/", "x", "x">>, TRUE, TRUE, <<1>>),
                 ConcRequest(<<"/", "x">>, FALSE, TRUE, <<1>>),
                 ConcRequest(<<"/", "x">>, TRUE, FALSE, <<1>>),
                 ConcRequest(<<"/", "x">>, TRUE, TRUE, <<2, 1>>)}
\* what an upstream answers: the status line, as code and text, and a body
ConcStatuses == {[StatusCode |-> 200, Status |-> "200 OK"],
                 [StatusCode |-> 503, Status |-> "503 Service Unavailable"],
                 [StatusCode |-> 503, Status |-> "503 Down"]}
ConcBodies == {"a", "b"}

NoRespBody == [StatusCode |-> 0, Status |-> "", Body |-> ""]

IdleHandler == [pc |-> "idle", request |-> NoRequest, stages |-> <<>>, hook |-> <<>>,
                writes |-> <<>>, sent |-> <<>>, resp |-> NoRespBody]

InitConc ==
    /\ \E u \in ConcUpstreams, a \in ConcSlices, n \in ConcProviders :
          /\ args = << [upstreamURL |-> u, allowedPaths |-> a,
                        provider |-> n, secret |-> <<"s">>] >>
          /\ proxy = NewProxy(u, a, n, <<"s">>).proxy
    /\ newErr = ""
    /\ pc = "idle"
    /\ request = NoRequest
    /\ stages = <<>>
    /\ hook = <<>>
    /\ writes = <<>>
    /\ sent = <<>>
    /\ resp = NoResp
    /\ call = <<>>
    /\ handlers = [i \in Handlers |-> IdleHandler]

\* the handler after http.Error(w, msg, code) and return
rejected(h, msg, code) == [h EXCEPT !.writes = httpError(@, msg, code), !.pc = "done"]

pathCheckStep(p, h) ==
    IF ~isPathAllowed(p, h.request.path)
    THEN rejected(h, "Not allowed to proxy path", StatusForbidden)
    ELSE [h EXCEPT !.pc = "ProviderInit"]

providerInitStep(p, h) ==
    IF NewProvider(p.provider, p.secret).err # ""
    THEN rejected(h, "Error creating Provider", StatusInternalServerError)
    ELSE [h EXCEPT !.pc = "ParseHook"]

parseHookStep(p, h) ==
    LET r == Parse(h.request, NewProvider(p.provider, p.secret).provider[1])
    IN  IF r.err # ""
        THEN rejected(h, "Error parsing Hook", StatusBadRequest)
        ELSE [h EXCEPT !.hook = r.hook, !.pc = "ValidateHook"]

validateHookStep(p, h) ==
    IF ~Validate(NewProvider(p.provider, p.secret).provider[1], h.hook[1])
    THEN rejected(h, "Error validating Hook", StatusBadRequest)
    ELSE [h EXCEPT !.pc = "Redirect"]

\* the call of redirect up to httpClient.Do, where the handler waits
redirectStep(p, h, newRequestFails, order) ==
    LET b == redirectBuild(p, h.hook, h.request.path, newRequestFails, order)
    IN  IF b.err # ""
        THEN rejected(h, "Error Redirecting", StatusInternalServerError)
        ELSE [h EXCEPT !.sent = Append(@, b.req[1]), !.pc = "AwaitUpstream"]

\* upstreamStatusCheckStep putting the body of the upstream's response in the message
upstreamStatusCheckStepWithBody(p, h) ==
    IF h.resp.StatusCode >= 400
    THEN rejected(h, "Error Redirecting, Upstream Redirect Status:" \o h.resp.Body,
                  h.resp.StatusCode)
    ELSE [h EXCEPT !.pc = "done"]

upstreamStatusCheckStep(p, h) ==
    IF h.resp.StatusCode >= 400
    THEN rejected(h, "Error Redirecting, Upstream Redirect Status:" \o h.resp.Status,
                  h.resp.StatusCode)
    ELSE [h EXCEPT !.pc = "done"]

StepStages == {"PathCheck", "ProviderInit", "ParseHook", "ValidateHook", "Redirect",
               "UpstreamStatusCheck"}

\* one stage of proxyRequest run by the handler h
proxyRequestStep(p, h, newRequestFails, order) ==
    LET g == [h EXCEPT !.stages = Append(@, h.pc)] IN
    CASE h.pc = "PathCheck" -> pathCheckStep(p, g)
      [] h.pc = "ProviderInit" -> providerInitStep(p, g)
      [] h.pc = "ParseHook" -> parseHookStep(p, g)
      [] h.pc = "ValidateHook" -> validateHookStep(p, g)
      [] h.pc = "Redirect" -> redirectStep(p, g, newRequestFails, order)
      [] h.pc = "UpstreamStatusCheck" -> upstreamStatusCheckStep(p, g)

ConcFrame == UNCHANGED <<args, proxy, newErr, pc, request, stages, hook, writes, sent, resp, call>>

\* the router starts proxyRequest for a POST on the idle handler i
Serve(i, r) ==
    /\ handlers[i].pc = "idle"
    /\ handlers' = [handlers EXCEPT ![i] = [IdleHandler EXCEPT !.pc = "PathCheck",
                                                               !.request = r]]
    /\ ConcFrame

\* Step with the hook kept in a field all handlers share
StepSharedHook(i, newRequestFails, order) ==
    /\ handlers[i].pc \in StepStages
    /\ LET n == proxyRequestStep(proxy[1], handlers[i], newRequestFails, order)
       IN  handlers' = [j \in Handlers |->
                           IF j = i THEN n
                           ELSE IF n.hook # <<>> /\ handlers[j].hook # <<>>
                                THEN [handlers[j] EXCEPT !.hook = n.hook]
                                ELSE handlers[j]]
    /\ ConcFrame

\* the handler i runs its next stage
Step(i, newRequestFails, order) ==
    /\ handlers[i].pc \in StepStages
    /\ handlers' = [handlers EXCEPT ![i] =
          proxyRequestStep(proxy[1], handlers[i], newRequestFails, order)]
    /\ ConcFrame

\* httpClient.Do returns the upstream's response to the handler i
UpstreamResponds(i, status, body) ==
    /\ handlers[i].pc = "AwaitUpstream"
    /\ handlers' = [handlers EXCEPT ![i] =
          [@ EXCEPT !.resp = [StatusCode |-> status.StatusCode, Status |-> status.Status,
                              Body |-> body],
                    !.pc = "UpstreamStatusCheck"]]
    /\ ConcFrame

\* a client without Timeout: Do never gives up
ClientTimeoutNever(i) ==
    /\ FALSE
    /\ UNCHANGED vars

\* httpClient.Do returns an error to the handler i: the transport failed or
\* the Timeout of the client, 60 seconds, has passed
ClientTimeout(i) ==
    /\ handlers[i].pc = "AwaitUpstream"
    /\ handlers' = [handlers EXCEPT ![i] =
          rejected(@, "Error Redirecting", StatusInternalServerError)]
    /\ ConcFrame

\* proxyRequest has returned on the handler i and the response is sent
HandlerReturn(i) ==
    /\ handlers[i].pc = "done"
    /\ handlers' = [handlers EXCEPT ![i] = IdleHandler]
    /\ ConcFrame

StepSome(i) ==
    \E f \in BOOLEAN :
       \E order \in (IF handlers[i].hook = <<>> THEN {<<>>}
                     ELSE MapOrders(handlers[i].hook[1].headers)) :
          Step(i, f, order)

NextConc ==
    \E i \in Handlers :
       \/ /\ handlers[i].pc = "idle"
          /\ \E r \in ConcRequests : Serve(i, r)
       \/ StepSome(i)
       \/ \E status \in ConcStatuses, body \in ConcBodies : UpstreamResponds(i, status, body)
       \/ ClientTimeout(i)
       \/ HandlerReturn(i)

SpecConc == InitConc /\ [][NextConc]_vars

\* The same handlers where only the status of the upstream's answer is told
\* apart, one below 400 and one from 400 on: the body and the text of the
\* status line play no part in whether a handler finishes.
TermStatuses == {[StatusCode |-> 200, Status |-> "200 OK"],
                 [StatusCode |-> 503, Status |-> "503 Service Unavailable"]}

NextTerm ==
    \E i \in Handlers :
       \/ /\ handlers[i].pc = "idle"
          /\ \E r \in ConcRequests : Serve(i, r)
       \/ StepSome(i)
       \/ \E status \in TermStatuses : UpstreamResponds(i, status, "a")
       \/ ClientTimeout(i)
       \/ HandlerReturn(i)

\* every handler is scheduled, and the Timeout of the client ends a call of
\* Do that the upstream does not answer; nothing makes the upstream answer
SpecTerm ==
    /\ InitConc
    /\ [][NextTerm]_vars
    /\ \A i \in Handlers : WF_vars(StepSome(i)) /\ WF_vars(ClientTimeout(i))

----------------------------------------------------------------------------
(* The allow-list stated on its own terms, for the properties below *)

NonSpaceIndexes(s) == {i \in 1..Len(s) : ~IsSpace(s[i])}

\* s without its leading and trailing whitespace
Trimmed(s) ==
    LET I == NonSpaceIndexes(s)
    IN  IF I = {} THEN <<>>
        ELSE SubSeq(s, CHOOSE i \in I : \A j \in I : i <= j,
                       CHOOSE i \in I : \A j \in I : i >= j)

\* s trimmed of whitespace and then of a single trailing "/"
Normal(s) ==
    LET t == Trimmed(s)
    IN  IF t # <<>> /\ t[Len(t)] = "/" THEN SubSeq(t, 1, Len(t) - 1) ELSE t

Blank(s) == \A i \in 1..Len(s) : IsSpace(s[i])

Constructed == proxy # <<>>
Allowed == proxy[1].allowedPaths.elems
Called == call # <<>>

\* the request in hand matches no entry of a non-empty allow-list
PathRejected ==
    /\ Allowed # <<>>
    /\ \A i \in 1..Len(Allowed) : Normal(Allowed[i]) # Normal(request.path)

Ran(stage) == \E i \in 1..Len(stages) : stages[i] = stage

LastStage == IF stages = <<>> THEN "" ELSE stages[Len(stages)]

----------------------------------------------------------------------------
(* C7 *)

----------------------------------------------------------------------------
(* C8 *)

\* C8 as stated: no request handled by a Proxy with an empty allow-list is
\* answered with 403.
C8_AsStated ==
    (Constructed /\ Allowed = <<>>) =>
        CallerStatus # StatusForbidden

\* C8 amended: with an empty allow-list the path check accepts every path:
\* every request that has run PathCheck goes on to ProviderInit with nothing
\* written, and a 403 reaches the caller only as the upstream's own status,
\* passed on by UpstreamStatusCheck.
C8_EmptyAllowsAll ==
    (Constructed /\ Allowed = <<>>) =>
        /\ LastStage = "PathCheck" => (pc = "ProviderInit" /\ writes = <<>>)
        /\ CallerStatus = StatusForbidden =>
              (LastStage = "UpstreamStatusCheck" /\ resp.StatusCode = StatusForbidden)

\* a request has passed the path check of a Proxy with an empty allow-list
C8_Witness ==
    /\ Constructed
    /\ Allowed = <<>>
    /\ pc = "ProviderInit"
    /\ request.path = <<"/", "x", " ", "x">>

----------------------------------------------------------------------------
(* C9 *)

\* C9: with a non-empty allow-list a call of isPathAllowed returns true if and
\* only if the path, trimmed of whitespace and of one trailing "/", equals
\* some entry trimmed the same way; with the allow-list ["/x"] the paths "/x"
\* and "/x/" are allowed and "/x/x" is not.
C9_ExactMatch ==
    (Called /\ Allowed # <<>>) =>
        /\ call[1].result <=>
              \E i \in 1..Len(Allowed) : Normal(Allowed[i]) = Normal(call[1].path)
        /\ Allowed = << <<"/", "x">> >> =>
              /\ call[1].path \in {<<"/", "x">>, <<"/", "x", "/">>} => call[1].result
              /\ call[1].path = <<"/", "x", "/", "x">> => ~call[1].result

\* isPathAllowed has refused "/x/x" under the allow-list ["/x"]
C9_Witness ==
    /\ Called
    /\ Allowed = << <<"/", "x">> >>
    /\ call[1] = [path |-> <<"/", "x", "/", "x">>, result |-> FALSE]

----------------------------------------------------------------------------
(* C10 *)

\* C10: NewProxy returns an error and no Proxy when secret, upstreamURL or
\* provider is blank or allowedPaths is nil; otherwise it returns no error
\* and a Proxy holding exactly the arguments, which request handling leaves
\* as they are; so every Proxy has non-blank secret, upstreamURL and
\* provider and non-nil allowedPaths.
C10_NewProxy ==
    args # <<>> =>
        LET a == args[1]
            bad == \/ Blank(a.secret) \/ Blank(a.upstreamURL) \/ Blank(a.provider)
                   \/ a.allowedPaths.isNil
        IN  /\ bad => (proxy = <<>> /\ newErr # "")
            /\ ~bad => /\ Constructed
                       /\ newErr = ""
                       /\ proxy[1].secret = a.secret
                       /\ proxy[1].upstreamURL = a.upstreamURL
                       /\ proxy[1].provider = a.provider
                       /\ proxy[1].allowedPaths = a.allowedPaths
            /\ Constructed => /\ ~Blank(proxy[1].secret)
                              /\ ~Blank(proxy[1].upstreamURL)
                              /\ ~Blank(proxy[1].provider)
                              /\ ~proxy[1].allowedPaths.isNil

\* NewProxy has refused a nil allowedPaths given with otherwise valid arguments
C10_Witness ==
    /\ args # <<>>
    /\ args[1].allowedPaths.isNil
    /\ ~Blank(args[1].secret) /\ ~Blank(args[1].upstreamURL) /\ ~Blank(args[1].provider)
    /\ proxy = <<>>
    /\ newErr = "Cannot create Proxy with nil allowedPaths"

----------------------------------------------------------------------------
(* C1 *)

\* C1: a request whose path the allow-list rejects, once PathCheck has run,
\* is finished with status 403 for the caller; no provider was constructed,
\* no hook parsed or validated, and nothing was sent upstream.
C1_RejectedPath ==
    (Constructed /\ Ran("PathCheck") /\ PathRejected) =>
        /\ pc = "done"
        /\ CallerStatus = StatusForbidden
        /\ Len(writes) = 1
        /\ stages = <<"PathCheck">>
        /\ hook = <<>>
        /\ sent = <<>>

\* a request with a valid signature for a path outside the allow-list was rejected
C1_Witness ==
    /\ Constructed
    /\ Allowed = << <<"/", "x">> >>
    /\ request.path = <<"/", "x", "x">>
    /\ request.parseOk /\ request.sigValid
    /\ pc = "done"
    /\ CallerStatus = StatusForbidden

----------------------------------------------------------------------------
(* C2 *)

\* C2: a request that reached ValidateHook and whose hook does not validate,
\* once ValidateHook has run, is finished with status 400 for the caller and
\* nothing was sent upstream.
C2_InvalidHook ==
    (Ran("ValidateHook") /\ ~request.sigValid) =>
        /\ pc = "done"
        /\ CallerStatus = StatusBadRequest
        /\ Len(writes) = 1
        /\ LastStage = "ValidateHook"
        /\ sent = <<>>

\* a parsed hook with a wrong signature was rejected
C2_Witness ==
    /\ pc = "done"
    /\ LastStage = "ValidateHook"
    /\ hook # <<>>
    /\ ~request.sigValid
    /\ CallerStatus = StatusBadRequest

----------------------------------------------------------------------------
(* C3 *)

StagePrefix(n) == SubSeq(StageOrder, 1, n)

StageIndex(stage) == CHOOSE i \in 1..Len(StageOrder) : StageOrder[i] = stage

IsStage(x) == \E i \in 1..Len(StageOrder) : StageOrder[i] = x

ProviderKnown == proxy[1].provider \in KnownProviders

\* C3: the stages that have run are an initial part of PathCheck,
\* ProviderInit, ParseHook, ValidateHook, Redirect, UpstreamStatusCheck, each
\* once; a stage is about to run only when all stages before it have run and
\* none has written a response; and a finished request was answered by the
\* earliest stage whose failure condition holds: 403 after PathCheck alone for
\* a rejected path, else 500 after ProviderInit for an unknown provider, else
\* 400 after ParseHook for an unparsable request, else 400 after ValidateHook
\* for an invalid signature, else the request went on to Redirect.
C3_StageOrder ==
    /\ stages = StagePrefix(Len(stages))
    /\ IsStage(pc) => (stages = StagePrefix(StageIndex(pc) - 1) /\ writes = <<>>)
    /\ pc = "done" =>
          IF PathRejected
          THEN stages = StagePrefix(1) /\ CallerStatus = StatusForbidden
          ELSE IF ~ProviderKnown
          THEN stages = StagePrefix(2) /\ CallerStatus = StatusInternalServerError
          ELSE IF ~request.parseOk
          THEN stages = StagePrefix(3) /\ CallerStatus = StatusBadRequest
          ELSE IF ~request.sigValid
          THEN stages = StagePrefix(4) /\ CallerStatus = StatusBadRequest
          ELSE Len(stages) >= 5

\* a request with a rejected path, an unparsable body and an invalid signature,
\* for a Proxy with an unknown provider, was answered 403
C3_Witness ==
    /\ Constructed
    /\ pc = "done"
    /\ PathRejected
    /\ ~ProviderKnown
    /\ ~request.parseOk
    /\ ~request.sigValid
    /\ CallerStatus = StatusForbidden

----------------------------------------------------------------------------
(* C4 *)

Succeeded == LastStage = "UpstreamStatusCheck" /\ resp.StatusCode < 400

\* C4: at most one outbound call is made for a request, also after a
\* transport error or an upstream status >= 400; at most one response is ever
\* written; and a finished request that failed has exactly one error response
\* written, one that succeeded has none (the server's default response).
C4_OnceEach ==
    /\ Len(sent) <= 1
    /\ Len(writes) <= 1
    /\ pc = "done" => Len(writes) = (IF Succeeded THEN 0 ELSE 1)
    /\ \A i \in 1..Len(writes) : writes[i].status >= 400

\* a request whose one outbound call met a transport error was answered once
C4_Witness ==
    /\ pc = "done"
    /\ LastStage = "Redirect"
    /\ Len(sent) = 1
    /\ Len(writes) = 1
    /\ CallerStatus = StatusInternalServerError

----------------------------------------------------------------------------
(* C5 *)

\* C5: once UpstreamStatusCheck has run, an upstream status s >= 400 (400
\* included) is the caller's status, and with an upstream status below 400
\* nothing is written.
C5_UpstreamStatus ==
    Ran("UpstreamStatusCheck") =>
        /\ pc = "done"
        /\ resp.StatusCode >= 400 => (CallerStatus = resp.StatusCode /\ Len(writes) = 1)
        /\ resp.StatusCode < 400 => writes = <<>>

\* the upstream answered exactly 400 and the caller got 400 from UpstreamStatusCheck
C5_Witness ==
    /\ pc = "done"
    /\ LastStage = "UpstreamStatusCheck"
    /\ resp.StatusCode = 400
    /\ CallerStatus = 400
    /\ writes[1].body = "Error Redirecting, Upstream Redirect Status"

----------------------------------------------------------------------------
(* C6 *)

\* C6: a finished request whose path is allowed, whose provider was
\* constructed, whose hook parsed and validated and whose outbound call
\* returned a status below 400 had exactly one outbound request sent, and
\* the caller gets the default status 200 with an empty body: nothing was written.
C6_Success ==
    (/\ pc = "done"
     /\ ~PathRejected /\ ProviderKnown /\ request.parseOk /\ request.sigValid
     /\ resp # NoResp /\ resp.StatusCode < 400) =>
        /\ Len(sent) = 1
        /\ writes = <<>>
        /\ CallerStatus = StatusOK
        /\ CallerBody = ""

\* a valid request for the allowed path "/x/" was forwarded and the upstream answered 399
C6_Witness ==
    /\ Constructed
    /\ Allowed = << <<"/", "x">> >>
    /\ request.path = <<"/", "x", "/">>
    /\ request.parseOk /\ request.sigValid
    /\ pc = "done"
    /\ resp.StatusCode = 399
    /\ Len(sent) = 1
    /\ writes = <<>>

----------------------------------------------------------------------------
(* C11 *)

\* C11: redirect called with a nil hook, whatever the path and also when
\* upstreamURL + path is no valid URL, returns the nil-hook error and no
\* response, and sends nothing.
C11_NilHook ==
    (Called /\ call[1].hook = <<>>) =>
        /\ call[1].err = "Cannot redirect with nil Hook"
        /\ call[1].resp = <<>>
        /\ sent = <<>>
        /\ resp = NoResp

\* redirect was called with a nil hook on a Proxy whose upstreamURL does not parse
C11_Witness ==
    /\ Called
    /\ call[1].hook = <<>>
    /\ urlParseFails(proxy[1].upstreamURL \o call[1].path)
    /\ call[1].err = "Cannot redirect with nil Hook"

----------------------------------------------------------------------------
(* C14 *)

----------------------------------------------------------------------------
(* C17 *)

\* rawurl starts with a scheme: a letter, then letters, digits, "+", "-", ".", then ":"
StartsWithScheme(rawurl) ==
    \E i \in 2..Len(rawurl) :
        /\ rawurl[i] = ":"
        /\ IsLetter(rawurl[1])
        /\ \A j \in 1..(i - 1) : IsLetter(rawurl[j]) \/ IsSchemeOther(rawurl[j])

\* C17: for a hook that is not nil the URL redirect works on is
\* upstreamURL + path, character for character; when it does not parse,
\* redirect returns the parse error and sends nothing; the request it sends
\* goes to that URL with its own scheme when it has one and with the scheme
\* http when it has none.
C17_TargetURL ==
    (Called /\ call[1].hook # <<>>) =>
        LET rawurl == proxy[1].upstreamURL \o call[1].path IN
        /\ urlParseFails(rawurl) =>
              (call[1].err = urlParse(rawurl).err /\ call[1].resp = <<>> /\ sent = <<>>)
        /\ sent # <<>> =>
              IF StartsWithScheme(rawurl)
              THEN sent[1].url.Scheme \o <<":">> \o sent[1].url.Rest = rawurl
              ELSE sent[1].url.Scheme = <<"http">> /\ sent[1].url.Rest = rawurl

\* redirect has sent a request to https://u/x, keeping the scheme
C17_Witness ==
    /\ Called
    /\ proxy[1].upstreamURL = <<"https", ":", "/", "/", "u">>
    /\ call[1].path = <<"/", "x">>
    /\ Len(sent) = 1
    /\ sent[1].url = [Scheme |-> <<"https">>, Rest |-> <<"/", "/", "u", "/", "x">>]

----------------------------------------------------------------------------
(* C18 *)

\* C18: the request redirect sends carries every header of hook.headers,
\* under its canonical name, with its value; the content type of the hook is
\* on it twice, added ahead of the other headers and again with them; a hook
\* without content type gives a request without content type.
C18_Headers ==
    (Called /\ sent # <<>>) =>
        LET hh == call[1].hook[1].headers
            out == sent[1].header
        IN  /\ DOMAIN out = {CanonicalMIMEHeaderKey(k) : k \in DOMAIN hh}
            /\ \A k \in DOMAIN hh :
                  out[CanonicalMIMEHeaderKey(k)] =
                     (IF k = ContentTypeHeader THEN <<hh[k], hh[k]>> ELSE <<hh[k]>>)
            /\ ContentTypeHeader \notin DOMAIN hh => ContentTypeHeader \notin DOMAIN out

\* redirect has sent a request with the content type twice and the event header once
C18_Witness ==
    /\ Called
    /\ Len(sent) = 1
    /\ DOMAIN call[1].hook[1].headers = {"Content-Type", "X-GitHub-Event"}
    /\ sent[1].header["Content-Type"] = <<"json", "json">>
    /\ sent[1].header["X-Github-Event"] = <<"push">>

----------------------------------------------------------------------------
(* C15 *)

\* C15: a request for which provider construction fails is finished by
\* ProviderInit with 500 and one for which parsing fails by ParseHook with
\* 400, nothing being sent upstream in either case; a request whose call of
\* redirect returned an error is finished by Redirect with 500, and
\* UpstreamStatusCheck does not run.
C15_OtherFailures ==
    /\ (Ran("ProviderInit") /\ ~ProviderKnown) =>
          /\ pc = "done" /\ LastStage = "ProviderInit"
          /\ CallerStatus = StatusInternalServerError
          /\ sent = <<>>
    /\ (Ran("ParseHook") /\ ~request.parseOk) =>
          /\ pc = "done" /\ LastStage = "ParseHook"
          /\ CallerStatus = StatusBadRequest
          /\ sent = <<>>
    /\ (Ran("Redirect") /\ resp = NoResp) =>
          /\ pc = "done" /\ LastStage = "Redirect"
          /\ CallerStatus = StatusInternalServerError
          /\ Len(writes) = 1

\* the outbound call of a request met a transport error and the caller got 500
C15_Witness ==
    /\ pc = "done"
    /\ LastStage = "Redirect"
    /\ Len(sent) = 1
    /\ resp = NoResp
    /\ CallerStatus = StatusInternalServerError

----------------------------------------------------------------------------
(* C19 *)

\* C19: whitespace is trimmed before the one trailing "/", on the path and on
\* the entry alike: under the allow-list ["/x"] the path "/x/ " is allowed and
\* "/x /" and "/x//" are not; under ["/x/"] the path "/x" is allowed; and under
\* a list of one entry a path is allowed exactly when the entry would be
\* allowed under the list holding only that path.
C19_TrimOrder ==
    Called =>
        /\ Allowed = << <<"/", "x">> >> =>
              /\ call[1].path = <<"/", "x", "/", " ">> => call[1].result
              /\ call[1].path \in {<<"/", "x", " ", "/">>, <<"/", "x", "/", "/">>}
                    => ~call[1].result
        /\ (Allowed = << <<"/", "x", "/">> >> /\ call[1].path = <<"/", "x">>)
              => call[1].result
        /\ Len(Allowed) = 1 =>
              call[1].result =
                 isPathAllowed([allowedPaths |-> Slice(<<call[1].path>>)], Allowed[1])

\* isPathAllowed has accepted "/x/ " under the allow-list ["/x"]
C19_Witness ==
    /\ Called
    /\ Allowed = << <<"/", "x">> >>
    /\ call[1] = [path |-> <<"/", "x", "/", " ">>, result |-> TRUE]

----------------------------------------------------------------------------
(* C12 *)

HandlerStatus(h) == IF h.writes = <<>> THEN StatusOK ELSE h.writes[1].status

HandlerRejected(h) ==
    /\ Allowed # <<>>
    /\ \A k \in 1..Len(Allowed) : Normal(Allowed[k]) # Normal(h.request.path)

\* the request h holds passes every check made before Redirect
HandlerPasses(h) ==
    ~HandlerRejected(h) /\ ProviderKnown /\ h.request.parseOk /\ h.request.sigValid

\* C12: while any number of requests are handled at the same time, in any
\* interleaving of their stages, the Proxy stays the one NewProxy built from
\* its arguments, and every handler is where its own request alone puts it:
\* the hook it holds is the one parsed from its own request, what it has
\* sent upstream is at most one request, sent only when its own request
\* passed every check, with the method POST, the URL upstreamURL + its own
\* path and its own body, and once finished its status is 403, 500, 400, 400
\* for the first check its own request fails, else 500 when nothing was sent
\* or the call returned an error, else the status of its own upstream
\* response when that is >= 400, else 200.
C12_Isolation ==
    /\ proxy = NewProxy(args[1].upstreamURL, args[1].allowedPaths,
                        args[1].provider, args[1].secret).proxy
    /\ \A i \in DOMAIN handlers :
          LET h == handlers[i] IN
          /\ h.hook # <<>> =>
                h.hook = Parse(h.request, NewProvider(proxy[1].provider, proxy[1].secret).provider[1]).hook
          /\ Len(h.sent) <= 1
          /\ h.sent # <<>> =>
                /\ HandlerPasses(h)
                /\ h.sent[1].method = "POST"
                /\ h.sent[1].url = [Scheme |-> <<"http">>,
                                    Rest |-> proxy[1].upstreamURL \o h.request.path]
                /\ h.sent[1].body = h.request.body
          /\ h.pc = "done" =>
                HandlerStatus(h) =
                   IF HandlerRejected(h) THEN StatusForbidden
                   ELSE IF ~ProviderKnown THEN StatusInternalServerError
                   ELSE IF ~h.request.parseOk THEN StatusBadRequest
                   ELSE IF ~h.request.sigValid THEN StatusBadRequest
                   ELSE IF h.sent = <<>> \/ h.resp.StatusCode = 0 THEN StatusInternalServerError
                   ELSE IF h.resp.StatusCode >= 400 THEN h.resp.StatusCode
                   ELSE StatusOK

\* two requests were handled at the same time: one was refused for its
\* signature, the other was sent upstream with its own body and succeeded
C12_Witness ==
    /\ handlers # <<>>
    /\ handlers[1].pc = "done"
    /\ handlers[1].request.parseOk /\ ~handlers[1].request.sigValid
    /\ handlers[1].request.body = <<1>>
    /\ HandlerStatus(handlers[1]) = StatusBadRequest
    /\ handlers[2].pc = "done"
    /\ handlers[2].request.sigValid
    /\ handlers[2].request.body = <<2, 1>>
    /\ Len(handlers[2].sent) = 1
    /\ handlers[2].sent[1].body = <<2, 1>>
    /\ handlers[2].resp.StatusCode = 200
    /\ HandlerStatus(handlers[2]) = StatusOK

----------------------------------------------------------------------------
(* C13 *)

HandlerBody(h) == IF h.writes = <<>> THEN "" ELSE h.writes[1].body

\* two handlers hold the same inbound request and met the same upstream
\* status line and the same outcome of the outbound call
SameButUpstreamBody(g, h) ==
    /\ g.pc = "done" /\ h.pc = "done"
    /\ g.request = h.request
    /\ g.sent = h.sent
    /\ g.resp.StatusCode = h.resp.StatusCode
    /\ g.resp.Status = h.resp.Status

\* C13: two finished handlings of the same inbound request that met the same
\* outcome of the outbound call and the same upstream status, whatever body
\* the upstream returned to each, answered their callers with the same status
\* and the same body.
C13_NoUpstreamBody ==
    \A i \in DOMAIN handlers, j \in DOMAIN handlers :
        SameButUpstreamBody(handlers[i], handlers[j]) =>
            /\ HandlerStatus(handlers[i]) = HandlerStatus(handlers[j])
            /\ HandlerBody(handlers[i]) = HandlerBody(handlers[j])
            /\ handlers[i].writes = handlers[j].writes

\* the same request was handled twice, the upstream answered 503 with the
\* body "a" to one and the body "b" to the other
C13_Witness ==
    /\ handlers # <<>>
    /\ SameButUpstreamBody(handlers[1], handlers[2])
    /\ handlers[1].resp.StatusCode = 503
    /\ handlers[1].resp.Body = "a"
    /\ handlers[2].resp.Body = "b"
    /\ Len(handlers[1].writes) = 1
    /\ handlers[1].writes = handlers[2].writes

----------------------------------------------------------------------------
(* C16 *)

\* C16: when every handler is scheduled and the Timeout of the client ends a
\* call of httpClient.Do the upstream leaves unanswered, every request
\* proxyRequest is handling is in time finished, with a rejection or with
\* Success: no stage is run again, and the wait for the upstream ends.
C16_Terminates ==
    \A i \in Handlers :
        (handlers[i].pc \in StepStages \cup {"AwaitUpstream"}) ~> (handlers[i].pc = "done")

\* a request whose outbound call the upstream never answered was finished by
\* the Timeout of the client, with 500
C16_Witness ==
    /\ handlers # <<>>
    /\ handlers[1].pc = "done"
    /\ handlers[1].stages[Len(handlers[1].stages)] = "Redirect"
    /\ Len(handlers[1].sent) = 1
    /\ handlers[1].resp = NoRespBody
    /\ HandlerStatus(handlers[1]) = StatusInternalServerError
    /\ handlers[2].pc = "AwaitUpstream"

====
